---------------------------- MODULE Spec2Model ----------------------------
(***************************************************************************)
(* Job Lifecycle Client of the AutomatedVisualizationModule React          *)
(* component (src/unnamed/part_000): form validation, start-job request,   *)
(* push channel (WebSocket) with fallback polling, preview retrieval and   *)
(* cancellation.                                                           *)
(*                                                                         *)
(* The state is the component's React state (analysisParams, jobStatus,    *)
(* results, errors), the wsRef reference, the WebSocket objects and        *)
(* setInterval timers the component has created, and the HTTP requests    *)
(* that are in flight.  Every action is one handler or one callback of    *)
(* the component, run to completion (the host is a single-threaded event  *)
(* loop); an `await` splits a handler into the part before the request    *)
(* and the continuation that runs on the response.                        *)
(***************************************************************************)
EXTENDS Integers, Sequences, FiniteSets, TLC

(***************************************************************************)
(* Bounds of the model.                                                    *)
(***************************************************************************)
\* job ids the server hands out (successful start-job responses)
MaxJobs == 2
\* HTTP requests issued and timers started over one run
MaxIssued == 4
\* the same, over one run of the form specification
MaxFormIssued == 1
\* the same, over one run of the teardown specification
MaxTeardownIssued == 3
\* job ids the server hands out to the dashboard module
MaxVizJobs == 2
\* requests the dashboard module issues over one run (start-job and status)
MaxVizIssued == 4
\* clicks of the user on the map dashboard over one run
MaxUserActions == 3

(***************************************************************************)
(* Values.                                                                 *)
(***************************************************************************)
\* jobId: null
NullJob == 0
\* a field a message or a response does not carry (JavaScript undefined)
Undefined == "undefined"
\* progress of a message that carries none
NoProgress == -1
\* an empty date input ('')
NoDate == <<>>
\* geometry: null
NullGeometry == "null"
\* results: null
NullResults == 0

JobIds == 1..MaxJobs

VARIABLES
    mounted,          \* the component is mounted: its effect cleanup has not run
    analysisParams,   \* useState: the form
    jobStatus,        \* useState: {status, progress, message, jobId}
    results,          \* useState: the preview shown (the job id it belongs to)
    errors,           \* useState: error key -> message (Undefined: key absent)
    presets,          \* useState: the quick-start presets, <<>> until they are loaded
    presetsInFlight,  \* GET /visualization/presets requests awaiting a response
    wsRef,            \* useRef: index of the current WebSocket in sockets, 0 = null
    sockets,          \* the WebSocket objects created: [jobId, readyState]
    intervals,        \* the setInterval timers created: [jobId, active, inFlight]
    submitInFlight,   \* POST /visualization/generate requests awaiting a response
    cancelInFlight,   \* POST .../cancel requests awaiting a response
    previewInFlight,  \* job id -> GET .../preview requests awaiting a response
    previewCalls,     \* job id -> GET .../preview requests issued so far
    jobsCreated,      \* job ids the server has handed out
    issued,           \* HTTP requests issued and timers started so far
    lastCall          \* the handler or callback that ran last

jobVars == <<jobStatus, results, wsRef, sockets, intervals, submitInFlight,
             cancelInFlight, previewInFlight, previewCalls, jobsCreated, issued>>
presetVars == <<presets, presetsInFlight>>
componentVars == <<mounted, analysisParams, errors, presetVars, jobVars>>

\* The dashboard page: VisualizationModule (the module-level object state, the
\* timers of pollStatus, the requests in flight).
VARIABLES
    state,                \* state.status and state.jobId of VisualizationModule
    vizIntervals,         \* the setInterval timers of pollStatus: TRUE = not cleared
    vizPolls,             \* <<interval, job id>> -> status requests awaiting a response
    vizGenerateInFlight,  \* POST .../generate requests awaiting a response
    vizFetchCalls,        \* job id -> calls of fetchResults so far
    vizJobsCreated,       \* job ids the server has handed out
    vizIssued             \* requests issued so far

vizVars == <<state, vizIntervals, vizPolls, vizGenerateInFlight, vizFetchCalls,
             vizJobsCreated, vizIssued>>

\* The dashboard page: MapManager and IndexManager.
VARIABLES
    currentMapMode,             \* MapManager.currentMapMode
    layerTransitionInProgress,  \* MapManager.layerTransitionInProgress
    selectedField,              \* window.DashboardState.selectedField (its geometry type)
    indexRetryCount,            \* IndexManager.indexRetryCount
    lastIndexResponse,          \* IndexManager.lastIndexResponse
    chains,                     \* the loadIndexLayer calls: their request, retry timer, outcome
    satelliteTimers,            \* pending 200 ms timers of setMapMode('satellite')
    userActions                 \* clicks handled so far

indexVars == <<currentMapMode, layerTransitionInProgress, selectedField,
               indexRetryCount, lastIndexResponse, chains, satelliteTimers,
               userActions>>

dashVars == <<vizVars, indexVars>>

vars == <<componentVars, lastCall, dashVars>>

(***************************************************************************)
(* The form and its validation.                                            *)
(***************************************************************************)
ErrorKeys == {"regionName", "startDate", "endDate", "geometry", "submit", "presets"}

\* setErrors({})
NoErrors == [k \in ErrorKeys |-> Undefined]

\* Object.keys(errors)
Keys(e) == {k \in ErrorKeys : e[k] # Undefined}

\* the characters String.prototype.trim strips: ECMAScript WhiteSpace (TAB,
\* VT, FF, SP, NBSP, ZWNBSP and the space separators) and LineTerminator (LF,
\* CR, LS, PS); a character outside ASCII is written by its code point
WhiteSpace ==
    {"\t", "U+000B", "\f", " ", "U+00A0", "U+FEFF", "U+1680", "U+2000", "U+2001",
     "U+2002", "U+2003", "U+2004", "U+2005", "U+2006", "U+2007", "U+2008",
     "U+2009", "U+200A", "U+202F", "U+205F", "U+3000",
     "\n", "\r", "U+2028", "U+2029"}

\* String.prototype.trim on a sequence of characters
RECURSIVE TrimLeft(_)
TrimLeft(s) ==
    IF s # <<>> /\ Head(s) \in WhiteSpace THEN TrimLeft(Tail(s)) ELSE s

RECURSIVE TrimRight(_)
TrimRight(s) ==
    IF s # <<>> /\ s[Len(s)] \in WhiteSpace
    THEN TrimRight(SubSeq(s, 1, Len(s) - 1)) ELSE s

Trim(s) == TrimRight(TrimLeft(s))

\* Gregorian leap year
IsLeap(y) == (y % 4 = 0 /\ y % 100 # 0) \/ y % 400 = 0

DaysInMonth(y, m) ==
    IF m = 2 THEN (IF IsLeap(y) THEN 29 ELSE 28)
    ELSE IF m \in {4, 6, 9, 11} THEN 30 ELSE 31

RECURSIVE DaysBeforeMonth(_, _)
DaysBeforeMonth(y, m) ==
    IF m = 1 THEN 0 ELSE DaysBeforeMonth(y, m - 1) + DaysInMonth(y, m - 1)

\* days from 1970-01-01 to the first of January of year y (y >= 1970)
RECURSIVE DaysBeforeYear(_)
DaysBeforeYear(y) ==
    IF y = 1970 THEN 0
    ELSE DaysBeforeYear(y - 1) + (IF IsLeap(y - 1) THEN 366 ELSE 365)

\* new Date('YYYY-MM-DD'): a date-only string is UTC midnight of that day;
\* the value is kept in days (its milliseconds / (1000 * 60 * 60 * 24))
NewDate(d) == DaysBeforeYear(d[1]) + DaysBeforeMonth(d[1], d[2]) + (d[3] - 1)

\* (end - start) / (1000 * 60 * 60 * 24)
DaysDiff(start, end) == NewDate(end) - NewDate(start)

\* the longest date range validateForm accepts, in days
MaxRangeDays == 366

\* the range check with >= in place of >
RangeTooLongInclusive(daysDiff) == daysDiff >= MaxRangeDays

\* daysDiff > 366
RangeTooLong(daysDiff) == daysDiff > MaxRangeDays

\* the order check with > in place of >=
NotAfterStrict(start, end) == NewDate(start) > NewDate(end)

\* start >= end
NotAfter(start, end) == NewDate(start) >= NewDate(end)

\* errors.endDate as validateForm leaves it: the "required" check, then the
\* order check, then the range check, each overwriting the one before
EndDateError(p) ==
    LET required == IF p.endDate = NoDate THEN "End date is required" ELSE Undefined
    IN  IF p.startDate # NoDate /\ p.endDate # NoDate
        THEN LET order == IF NotAfter(p.startDate, p.endDate)
                          THEN "End date must be after start date"
                          ELSE required
             IN  IF RangeTooLong(DaysDiff(p.startDate, p.endDate))
                 THEN "Date range cannot exceed 366 days"
                 ELSE order
        ELSE required

validateForm(p) ==
    [k \in ErrorKeys |->
        CASE k = "regionName" ->
                IF Trim(p.regionName) = <<>> THEN "Region name is required" ELSE Undefined
          [] k = "startDate" ->
                IF p.startDate = NoDate THEN "Start date is required" ELSE Undefined
          [] k = "endDate" -> EndDateError(p)
          [] k = "geometry" ->
                IF p.geometry = NullGeometry
                THEN "Please define an analysis area on the map" ELSE Undefined
          [] OTHER -> Undefined]

\* the form inputs the model draws from: an empty, a blank and a filled region
\* name; from 2024-01-01 it is 366 days to 2025-01-01 and 367 to 2025-01-02,
\* from 2025-01-01 it is 0 and 1
RegionNames == {<<>>, <<" ", "\t">>, <<"Z", "w">>}
StartDates == {NoDate, <<2024, 1, 1>>, <<2025, 1, 1>>}
EndDates == {NoDate, <<2025, 1, 1>>, <<2025, 1, 2>>}
Geometries == {NullGeometry, "polygon"}

\* the body of a GET /visualization/presets response: a preset with default
\* dates and one without
Presets ==
    <<[id |-> 1, name |-> <<"Z", "w">>, geometry |-> "polygon",
       default_start_date |-> <<2024, 1, 1>>, default_end_date |-> <<2025, 1, 1>>],
      [id |-> 2, name |-> <<"Z", "w">>, geometry |-> "polygon",
       default_start_date |-> Undefined, default_end_date |-> Undefined]>>

\* useState({regionName: '', startDate: '', endDate: '', analysisType:
\* 'anomaly', geometry: null})
EmptyForm ==
    [regionName |-> <<>>, startDate |-> NoDate, endDate |-> NoDate,
     analysisType |-> "anomaly", geometry |-> NullGeometry]

(***************************************************************************)
(* The job state.                                                          *)
(***************************************************************************)
IdleJob == [status |-> "idle", progress |-> 0, message |-> "", jobId |-> NullJob]

\* isRunning={jobStatus.status === 'running' || jobStatus.status === 'pending'}
isRunning == jobStatus.status = "running" \/ jobStatus.status = "pending"

\* the push messages the server may send
WsMessages ==
    {[type |-> "progress_update", progress |-> 20, message |-> "Loading data"],
     [type |-> "progress_update", progress |-> 45, message |-> "Loading data"],
     [type |-> "job_completed", progress |-> NoProgress, message |-> Undefined],
     [type |-> "job_failed", progress |-> NoProgress, message |-> "GEE quota exceeded"],
     [type |-> "job_failed", progress |-> NoProgress, message |-> Undefined]}

\* the bodies of a GET .../status response
StatusResponses ==
    {[status |-> "pending", progress |-> 0, message |-> "Queued"],
     [status |-> "running", progress |-> 45, message |-> "Loading data"],
     [status |-> "completed", progress |-> 100, message |-> "Done"],
     [status |-> "completed", progress |-> 95, message |-> "Done"],
     [status |-> "failed", progress |-> 45, message |-> "GEE quota exceeded"]}

\* error.response?.data?.detail of a rejected start-job request
SubmitDetails == {Undefined, "Region too large"}

(***************************************************************************)
(* The dashboard page: VisualizationModule.                                *)
(***************************************************************************)
VizJobIds == 1..MaxVizJobs

\* pollStatus runs once per accepted start-job request
VizIntervalIds == 1..MaxVizJobs

\* the values of the region select and of the two date inputs
RegionIds == {"", "harare"}
AnalysisDates == {"", "2024-01-01"}

\* the bodies of a GET .../status response of the dashboard
VizStatusData ==
    {[status |-> "running", progress |-> 45, message |-> "Loading data"],
     [status |-> "completed", progress |-> 100, message |-> "Done"],
     [status |-> "failed", progress |-> 45, message |-> "GEE quota exceeded"]}

\* const state = {status: 'idle', jobId: null, ...}
InitViz ==
    /\ state = [status |-> "idle", jobId |-> NullJob]
    /\ vizIntervals = <<>>
    /\ vizPolls = [p \in VizIntervalIds \X VizJobIds |-> 0]
    /\ vizGenerateInFlight = 0
    /\ vizFetchCalls = [j \in VizJobIds |-> 0]
    /\ vizJobsCreated = 0
    /\ vizIssued = 0

(***************************************************************************)
(* The dashboard page: MapManager and IndexManager.                        *)
(***************************************************************************)
NoField == "null"
NoResponse == "null"

\* CONFIG.INDEX.MAX_RETRIES
MAX_RETRIES == 3

\* the geometry type of the field a click on the map selects
FieldGeometries == {"Polygon", "Point"}

\* MapManager = {currentMapMode: 'satellite', layerTransitionInProgress:
\* false}, IndexManager = {indexRetryCount: 0, lastIndexResponse: null}
InitIndex ==
    /\ currentMapMode = "satellite"
    /\ layerTransitionInProgress = FALSE
    /\ selectedField = NoField
    /\ indexRetryCount = 0
    /\ lastIndexResponse = NoResponse
    /\ chains = <<>>
    /\ satelliteTimers = 0
    /\ userActions = 0

Init ==
    /\ InitViz
    /\ InitIndex
    /\ mounted = TRUE
    /\ presets = <<>>
    /\ presetsInFlight = 1
    /\ analysisParams = EmptyForm
    /\ jobStatus = IdleJob
    /\ results = NullResults
    /\ errors = NoErrors
    /\ wsRef = 0
    /\ sockets = <<>>
    /\ intervals = <<>>
    /\ submitInFlight = 0
    /\ cancelInFlight = 0
    /\ previewInFlight = [j \in JobIds |-> 0]
    /\ previewCalls = [j \in JobIds |-> 0]
    /\ jobsCreated = 0
    /\ issued = 0
    /\ lastCall = "mount"

(***************************************************************************)
(* Helpers of the handlers.                                                *)
(***************************************************************************)
\* new WebSocket(wsUrl) with onmessage and onerror installed; wsRef.current
\* is overwritten, the socket it held is left as it is
startWebSocketConnection(jobId) ==
    /\ sockets' = Append(sockets, [jobId |-> jobId, readyState |-> "OPEN"])
    /\ wsRef' = Len(sockets) + 1

\* setInterval(..., 2000): a new timer on every call; its handle is a local
\* of pollJobStatus
pollJobStatus(jobId) ==
    /\ issued < MaxIssued
    /\ issued' = issued + 1
    /\ intervals' = Append(intervals, [jobId |-> jobId, active |-> TRUE, inFlight |-> 0])

\* loadJobResults up to its await: GET .../jobs/{jobId}/preview is issued
loadJobResults(jobId) ==
    /\ issued < MaxIssued
    /\ issued' = issued + 1
    /\ previewCalls' = [previewCalls EXCEPT ![jobId] = @ + 1]
    /\ previewInFlight' = [previewInFlight EXCEPT ![jobId] = @ + 1]

\* wsRef.current.close() when wsRef.current is set
CloseCurrentSocket ==
    IF wsRef # 0
    THEN sockets' = [sockets EXCEPT ![wsRef].readyState = "CLOSED"]
    ELSE UNCHANGED sockets

\* the useState setters: React drops the update of an unmounted component
setJobStatus(v) == jobStatus' = IF mounted THEN v ELSE jobStatus

setResults(v) == results' = IF mounted THEN v ELSE results

setErrors(v) == errors' = IF mounted THEN v ELSE errors

\* onmessage keeping the higher progress when an update carries a lower one
OnMessageJobMonotonic(prev, data) ==
    CASE data.type = "progress_update" ->
            [prev EXCEPT !.status = "running",
                         !.progress = IF data.progress > @ THEN data.progress ELSE @,
                         !.message = data.message]
      [] data.type = "job_completed" ->
            [prev EXCEPT !.status = "completed", !.progress = 100,
                         !.message = "Analysis completed successfully"]
      [] data.type = "job_failed" ->
            [prev EXCEPT !.status = "failed",
                         !.message = IF data.message \in {Undefined, ""}
                                     THEN "Analysis failed" ELSE data.message]
      [] OTHER -> prev

\* onmessage copying data.message in the job_failed branch without a default
OnMessageJobNoDefault(prev, data) ==
    CASE data.type = "progress_update" ->
            [prev EXCEPT !.status = "running", !.progress = data.progress,
                         !.message = data.message]
      [] data.type = "job_completed" ->
            [prev EXCEPT !.status = "completed", !.progress = 100,
                         !.message = "Analysis completed successfully"]
      [] data.type = "job_failed" ->
            [prev EXCEPT !.status = "failed", !.message = data.message]
      [] OTHER -> prev

\* the job state after a push message (the three branches of onmessage)
OnMessageJob(prev, data) ==
    CASE data.type = "progress_update" ->
            [prev EXCEPT !.status = "running", !.progress = data.progress,
                         !.message = data.message]
      [] data.type = "job_completed" ->
            [prev EXCEPT !.status = "completed", !.progress = 100,
                         !.message = "Analysis completed successfully"]
      [] data.type = "job_failed" ->
            [prev EXCEPT !.status = "failed",
                         !.message = IF data.message \in {Undefined, ""}
                                     THEN "Analysis failed" ELSE data.message]
      [] OTHER -> prev

\* the job state the poll callback sets from a status response
OnStatusJob(status, jobId) ==
    [status |-> status.status, progress |-> status.progress,
     message |-> status.message, jobId |-> jobId]

(***************************************************************************)
(* What the render lets the user do.                                       *)
(***************************************************************************)
\* the Generate button: disabled={isRunning}
SubmitEnabled == ~isRunning

\* JobProgressPanel, and with it the Cancel button, is rendered
CancelRendered == jobStatus.status = "running" \/ jobStatus.status = "pending"

\* the error panel with the Try Again button is rendered
TryAgainRendered == jobStatus.status = "failed"

\* if (jobStatus.jobId)
CancelGuard == jobStatus.jobId # NullJob

(***************************************************************************)
(* Handlers and callbacks.                                                 *)
(***************************************************************************)
\* handleAnalysisSubmit up to its await
handleAnalysisSubmit ==
    /\ mounted
    /\ SubmitEnabled
    /\ LET validationErrors == validateForm(analysisParams)
       IN  IF Keys(validationErrors) # {}
           THEN /\ errors' = validationErrors
                /\ UNCHANGED <<submitInFlight, issued>>
           ELSE /\ issued < MaxIssued
                /\ issued' = issued + 1
                /\ errors' = NoErrors
                /\ submitInFlight' = submitInFlight + 1
    /\ lastCall' = "handleAnalysisSubmit"
    /\ UNCHANGED <<presetVars, dashVars, mounted, analysisParams, jobStatus, results, wsRef, sockets, intervals,
                   cancelInFlight, previewInFlight, previewCalls, jobsCreated>>

\* the pending state built on the previous job state ({...prev, status, jobId})
SubmitResolvedSpreadsPrev ==
    /\ submitInFlight > 0
    /\ jobsCreated < MaxJobs
    /\ LET job_id == jobsCreated + 1
       IN  /\ jobsCreated' = job_id
           /\ setJobStatus([jobStatus EXCEPT !.status = "pending", !.jobId = job_id])
           /\ startWebSocketConnection(job_id)
    /\ submitInFlight' = submitInFlight - 1
    /\ lastCall' = "SubmitResolved"
    /\ UNCHANGED <<presetVars, dashVars, mounted, analysisParams, errors, results, intervals, cancelInFlight,
                   previewInFlight, previewCalls, issued>>

\* handleAnalysisSubmit after the await: the server accepted and returned job_id
SubmitResolved ==
    /\ submitInFlight > 0
    /\ jobsCreated < MaxJobs
    /\ LET job_id == jobsCreated + 1
       IN  /\ jobsCreated' = job_id
           /\ setJobStatus([status |-> "pending", progress |-> 0,
                            message |-> "Starting analysis...", jobId |-> job_id])
           /\ startWebSocketConnection(job_id)
    /\ submitInFlight' = submitInFlight - 1
    /\ lastCall' = "SubmitResolved"
    /\ UNCHANGED <<presetVars, dashVars, mounted, analysisParams, errors, results, intervals, cancelInFlight,
                   previewInFlight, previewCalls, issued>>

\* the catch branch marking the job failed besides reporting the error
SubmitRejectedMarksFailed ==
    /\ submitInFlight > 0
    /\ \E detail \in SubmitDetails :
          /\ setErrors([NoErrors EXCEPT !["submit"] =
                           IF detail \in {Undefined, ""} THEN "Failed to start analysis"
                           ELSE detail])
          /\ setJobStatus([jobStatus EXCEPT !.status = "failed",
                                            !.message = errors'["submit"]])
    /\ submitInFlight' = submitInFlight - 1
    /\ lastCall' = "SubmitRejected"
    /\ UNCHANGED <<presetVars, dashVars, mounted, analysisParams, results, wsRef, sockets, intervals,
                   cancelInFlight, previewInFlight, previewCalls, jobsCreated, issued>>

\* handleAnalysisSubmit after the await: the request failed or was rejected
SubmitRejected ==
    /\ submitInFlight > 0
    /\ \E detail \in SubmitDetails :
          setErrors([NoErrors EXCEPT !["submit"] =
                        IF detail \in {Undefined, ""} THEN "Failed to start analysis"
                        ELSE detail])
    /\ submitInFlight' = submitInFlight - 1
    /\ lastCall' = "SubmitRejected"
    /\ UNCHANGED <<presetVars, dashVars, mounted, analysisParams, jobStatus, results, wsRef, sockets, intervals,
                   cancelInFlight, previewInFlight, previewCalls, jobsCreated, issued>>

\* onmessage with loadJobResults called in the job_failed branch as well
OnMessageLoadsOnFailure(s, data) ==
    /\ sockets[s].readyState = "OPEN"
    /\ setJobStatus(OnMessageJob(jobStatus, data))
    /\ IF data.type \in {"job_completed", "job_failed"}
       THEN loadJobResults(sockets[s].jobId)
       ELSE UNCHANGED <<previewCalls, previewInFlight, issued>>
    /\ lastCall' = "OnMessage"
    /\ UNCHANGED <<presetVars, dashVars, mounted, analysisParams, errors, results, wsRef, sockets, intervals,
                   submitInFlight, cancelInFlight, jobsCreated>>

\* wsRef.current.onmessage of socket s, for a message that decodes to data
OnMessage(s, data) ==
    /\ sockets[s].readyState = "OPEN"
    /\ setJobStatus(OnMessageJob(jobStatus, data))
    /\ IF data.type = "job_completed"
       THEN loadJobResults(sockets[s].jobId)
       ELSE UNCHANGED <<previewCalls, previewInFlight, issued>>
    /\ lastCall' = "OnMessage"
    /\ UNCHANGED <<presetVars, dashVars, mounted, analysisParams, errors, results, wsRef, sockets, intervals,
                   submitInFlight, cancelInFlight, jobsCreated>>

\* a decode failure treated as the end of the subscription
OnMessageMalformedClosesSocket(s) ==
    /\ sockets[s].readyState = "OPEN"
    /\ sockets' = [sockets EXCEPT ![s].readyState = "CLOSED"]
    /\ lastCall' = "OnMessageMalformed"
    /\ UNCHANGED <<presetVars, dashVars, mounted, analysisParams, errors, jobStatus, results, wsRef, intervals,
                   submitInFlight, cancelInFlight, previewInFlight, previewCalls,
                   jobsCreated, issued>>

\* wsRef.current.onmessage of socket s, for a message that is not JSON:
\* JSON.parse throws out of the handler before any setter is called; the
\* socket and its handlers stay as they are
OnMessageMalformed(s) ==
    /\ sockets[s].readyState = "OPEN"
    /\ lastCall' = "OnMessageMalformed"
    /\ UNCHANGED <<presetVars, dashVars, mounted, analysisParams, errors, jobStatus, results, wsRef, sockets,
                   intervals, submitInFlight, cancelInFlight, previewInFlight,
                   previewCalls, jobsCreated, issued>>

\* wsRef.current.onerror of socket s: fall back to polling.  The handler has
\* no guard and stays installed: it runs whenever the transport reports an
\* error, also on a socket that close() was called on (a connection closed
\* before it was established fails with an error event).  The transport
\* delivers no message after an error.
OnError(s) ==
    /\ sockets' = [sockets EXCEPT ![s].readyState =
                      IF @ = "CLOSED" THEN "CLOSED" ELSE "ERRORED"]
    /\ pollJobStatus(sockets[s].jobId)
    /\ lastCall' = "OnError"
    /\ UNCHANGED <<presetVars, dashVars, mounted, analysisParams, errors, jobStatus, results, wsRef, submitInFlight,
                   cancelInFlight, previewInFlight, previewCalls, jobsCreated>>

\* the timer callback of interval i up to its await: GET .../status is issued
IntervalTick(i) ==
    /\ intervals[i].active
    /\ issued < MaxIssued
    /\ issued' = issued + 1
    /\ intervals' = [intervals EXCEPT ![i].inFlight = @ + 1]
    /\ lastCall' = "IntervalTick"
    /\ UNCHANGED <<presetVars, dashVars, mounted, analysisParams, errors, jobStatus, results, wsRef, sockets,
                   submitInFlight, cancelInFlight, previewInFlight, previewCalls,
                   jobsCreated>>

\* the timer callback of interval i after the await, on a status response
StatusResolved(i, status) ==
    /\ intervals[i].inFlight > 0
    /\ setJobStatus(OnStatusJob(status, intervals[i].jobId))
    /\ IF status.status = "completed"
       THEN /\ intervals' = [intervals EXCEPT ![i].inFlight = @ - 1, ![i].active = FALSE]
            /\ loadJobResults(intervals[i].jobId)
       ELSE /\ intervals' = [intervals EXCEPT ![i].inFlight = @ - 1,
                                ![i].active = IF status.status = "failed" THEN FALSE ELSE @]
            /\ UNCHANGED <<previewCalls, previewInFlight, issued>>
    /\ lastCall' = "StatusResolved"
    /\ UNCHANGED <<presetVars, dashVars, mounted, analysisParams, errors, results, wsRef, sockets, submitInFlight,
                   cancelInFlight, jobsCreated>>

\* the catch of the timer callback clearing the interval
StatusRejectedClearsInterval(i) ==
    /\ intervals[i].inFlight > 0
    /\ intervals' = [intervals EXCEPT ![i].inFlight = @ - 1, ![i].active = FALSE]
    /\ lastCall' = "StatusRejected"
    /\ UNCHANGED <<presetVars, dashVars, mounted, analysisParams, errors, jobStatus, results, wsRef, sockets,
                   submitInFlight, cancelInFlight, previewInFlight, previewCalls,
                   jobsCreated, issued>>

\* the timer callback of interval i after the await, the request failed:
\* console.error only
StatusRejected(i) ==
    /\ intervals[i].inFlight > 0
    /\ intervals' = [intervals EXCEPT ![i].inFlight = @ - 1]
    /\ lastCall' = "StatusRejected"
    /\ UNCHANGED <<presetVars, dashVars, mounted, analysisParams, errors, jobStatus, results, wsRef, sockets,
                   submitInFlight, cancelInFlight, previewInFlight, previewCalls,
                   jobsCreated, issued>>

\* loadJobResults after the await: setResults(response.data)
PreviewResolved(j) ==
    /\ previewInFlight[j] > 0
    /\ previewInFlight' = [previewInFlight EXCEPT ![j] = @ - 1]
    /\ setResults(j)
    /\ lastCall' = "PreviewResolved"
    /\ UNCHANGED <<presetVars, dashVars, mounted, analysisParams, errors, jobStatus, wsRef, sockets, intervals,
                   submitInFlight, cancelInFlight, previewCalls, jobsCreated, issued>>

\* loadJobResults after the await, the request failed: console.error only
PreviewRejected(j) ==
    /\ previewInFlight[j] > 0
    /\ previewInFlight' = [previewInFlight EXCEPT ![j] = @ - 1]
    /\ lastCall' = "PreviewRejected"
    /\ UNCHANGED <<presetVars, dashVars, mounted, analysisParams, errors, jobStatus, results, wsRef, sockets,
                   intervals, submitInFlight, cancelInFlight, previewCalls, jobsCreated, issued>>

\* handleCancelJob up to its await (the Cancel button of JobProgressPanel)
handleCancelJob ==
    /\ mounted
    /\ CancelRendered
    /\ IF CancelGuard
       THEN /\ issued < MaxIssued
            /\ issued' = issued + 1
            /\ cancelInFlight' = cancelInFlight + 1
       ELSE UNCHANGED <<cancelInFlight, issued>>
    /\ lastCall' = "handleCancelJob"
    /\ UNCHANGED <<presetVars, dashVars, mounted, analysisParams, errors, jobStatus, results, wsRef, sockets,
                   intervals, submitInFlight, previewInFlight, previewCalls,
                   jobsCreated>>

\* handleCancelJob after the await: the server acknowledged
CancelResolved ==
    /\ cancelInFlight > 0
    /\ cancelInFlight' = cancelInFlight - 1
    /\ setJobStatus(IdleJob)
    /\ CloseCurrentSocket
    /\ lastCall' = "CancelResolved"
    /\ UNCHANGED <<presetVars, dashVars, mounted, analysisParams, errors, results, wsRef, intervals, submitInFlight,
                   previewInFlight, previewCalls, jobsCreated, issued>>

\* the catch branch resetting the job as the success branch does
CancelRejectedResetsJob ==
    /\ cancelInFlight > 0
    /\ cancelInFlight' = cancelInFlight - 1
    /\ setJobStatus(IdleJob)
    /\ lastCall' = "CancelRejected"
    /\ UNCHANGED <<presetVars, dashVars, mounted, analysisParams, errors, results, wsRef, sockets, intervals,
                   submitInFlight, previewInFlight, previewCalls, jobsCreated, issued>>

\* handleCancelJob after the await, the request failed: console.error only
CancelRejected ==
    /\ cancelInFlight > 0
    /\ cancelInFlight' = cancelInFlight - 1
    /\ lastCall' = "CancelRejected"
    /\ UNCHANGED <<presetVars, dashVars, mounted, analysisParams, errors, jobStatus, results, wsRef, sockets,
                   intervals, submitInFlight, previewInFlight, previewCalls,
                   jobsCreated, issued>>

\* the Try Again button of the error panel
TryAgain ==
    /\ mounted
    /\ TryAgainRendered
    /\ jobStatus' = IdleJob
    /\ lastCall' = "TryAgain"
    /\ UNCHANGED <<presetVars, dashVars, mounted, analysisParams, errors, results, wsRef, sockets, intervals,
                   submitInFlight, cancelInFlight, previewInFlight, previewCalls,
                   jobsCreated, issued>>

\* handleInputChange(field, value) of an input of the form (disabled={isRunning})
handleInputChange(field, value) ==
    /\ mounted
    /\ ~isRunning
    /\ analysisParams' = [analysisParams EXCEPT ![field] = value]
    /\ lastCall' = "handleInputChange"
    /\ UNCHANGED <<presetVars, dashVars, mounted, errors, jobVars>>

\* loadAnalysisPresets (called by the mount effect) after the await:
\* setPresets(response.data)
PresetsResolved ==
    /\ presetsInFlight > 0
    /\ presetsInFlight' = presetsInFlight - 1
    /\ presets' = IF mounted THEN Presets ELSE presets
    /\ lastCall' = "PresetsResolved"
    /\ UNCHANGED <<dashVars, mounted, analysisParams, errors, jobVars>>

\* loadAnalysisPresets after the await, the request failed: the presets
\* error is added to the errors there are
PresetsRejected ==
    /\ presetsInFlight > 0
    /\ presetsInFlight' = presetsInFlight - 1
    /\ setErrors([errors EXCEPT !["presets"] = "Failed to load presets"])
    /\ lastCall' = "PresetsRejected"
    /\ UNCHANGED <<dashVars, mounted, analysisParams, presets, jobVars>>

\* applyPreset(preset) of a preset button (rendered when presets.length > 0,
\* disabled={isRunning}): four fields in one update, the errors are left
applyPreset(preset) ==
    /\ mounted
    /\ ~isRunning
    /\ analysisParams' =
          [analysisParams EXCEPT
              !.regionName = preset.name,
              !.geometry = preset.geometry,
              !.startDate = IF preset.default_start_date = Undefined
                            THEN NoDate ELSE preset.default_start_date,
              !.endDate = IF preset.default_end_date = Undefined
                          THEN NoDate ELSE preset.default_end_date]
    /\ lastCall' = "applyPreset"
    /\ UNCHANGED <<presetVars, dashVars, mounted, errors, jobVars>>

\* a click on one of the preset buttons
ClickPreset == \E i \in DOMAIN presets : applyPreset(presets[i])

\* handleGeometryChange(geometry) of the map: the geometry error is dropped
handleGeometryChange(geometry) ==
    /\ mounted
    /\ analysisParams' = [analysisParams EXCEPT !.geometry = geometry]
    /\ errors' = IF errors["geometry"] # Undefined
                 THEN [errors EXCEPT !["geometry"] = Undefined]
                 ELSE errors
    /\ lastCall' = "handleGeometryChange"
    /\ UNCHANGED <<presetVars, dashVars, mounted, jobVars>>

\* the cleanup of the mount effect: only the socket wsRef.current holds is
\* closed; React runs the cleanup once
Unmount ==
    /\ mounted
    /\ mounted' = FALSE
    /\ CloseCurrentSocket
    /\ lastCall' = "Unmount"
    /\ UNCHANGED <<presetVars, dashVars, analysisParams, errors, jobStatus, results, wsRef, intervals,
                   submitInFlight, cancelInFlight, previewInFlight, previewCalls,
                   jobsCreated, issued>>

\* a push message arrives on some socket
SocketMessage == \E s \in DOMAIN sockets : \E data \in WsMessages : OnMessage(s, data)

\* an undecodable push message arrives on some socket
SocketMalformedMessage == \E s \in DOMAIN sockets : OnMessageMalformed(s)

\* a transport error is raised on some socket
SocketError == \E s \in DOMAIN sockets : OnError(s)

\* some timer fires
TimerTick == \E i \in DOMAIN intervals : IntervalTick(i)

\* a status request is answered
StatusResponse ==
    \E i \in DOMAIN intervals : \E status \in StatusResponses : StatusResolved(i, status)

\* a status request fails
StatusFailure == \E i \in DOMAIN intervals : StatusRejected(i)

\* a preview request is answered
PreviewResponse == \E j \in JobIds : PreviewResolved(j)

\* a preview request fails
PreviewFailure == \E j \in JobIds : PreviewRejected(j)

Next ==
    \/ handleAnalysisSubmit
    \/ SubmitResolved
    \/ SubmitRejected
    \/ SocketMessage
    \/ SocketMalformedMessage
    \/ SocketError
    \/ TimerTick
    \/ StatusResponse
    \/ StatusFailure
    \/ PreviewResponse
    \/ PreviewFailure
    \/ handleCancelJob
    \/ CancelResolved
    \/ CancelRejected
    \/ TryAgain
    \/ PresetsResolved
    \/ PresetsRejected
    \/ ClickPreset

\* The whole job lifecycle, for a form the user fills in from a preset.
Spec == Init /\ [][Next]_vars

\* the user types a region name, picks a date, draws or deletes the area
EditRegionName == \E v \in RegionNames : handleInputChange("regionName", v)

EditStartDate == \E v \in StartDates : handleInputChange("startDate", v)

EditEndDate == \E v \in EndDates : handleInputChange("endDate", v)

EditGeometry == \E g \in Geometries : handleGeometryChange(g)

\* the state after construction: the empty form, no job, the presets request
\* in flight
InitForm ==
    /\ Init
    /\ analysisParams = EmptyForm

\* handleAnalysisSubmit and the push messages within the request budget of
\* the form specification
FormSubmit == handleAnalysisSubmit /\ issued' <= MaxFormIssued

FormSocketMessage == SocketMessage /\ issued' <= MaxFormIssued

\* Editing and submitting the form while the push channel stays healthy: no
\* transport error, no cancellation.
NextForm ==
    \/ EditRegionName
    \/ EditStartDate
    \/ EditEndDate
    \/ EditGeometry
    \/ FormSubmit
    \/ SubmitResolved
    \/ SubmitRejected
    \/ FormSocketMessage
    \/ PresetsResolved
    \/ ClickPreset

SpecForm == InitForm /\ [][NextForm]_vars

\* the requests and timers within the budget of the teardown specification
TeardownSubmit == handleAnalysisSubmit /\ issued' <= MaxTeardownIssued

TeardownSocketMessage == SocketMessage /\ issued' <= MaxTeardownIssued

TeardownSocketError == SocketError /\ issued' <= MaxTeardownIssued

TeardownTimerTick == TimerTick /\ issued' <= MaxTeardownIssued

TeardownStatusResponse == StatusResponse /\ issued' <= MaxTeardownIssued

TeardownCancel == handleCancelJob /\ issued' <= MaxTeardownIssued

\* The job lifecycle with the component unmounted at any moment.
NextTeardown ==
    \/ TeardownSubmit
    \/ SubmitResolved
    \/ SubmitRejected
    \/ TeardownSocketMessage
    \/ SocketMalformedMessage
    \/ TeardownSocketError
    \/ TeardownTimerTick
    \/ TeardownStatusResponse
    \/ StatusFailure
    \/ PreviewResponse
    \/ PreviewFailure
    \/ TeardownCancel
    \/ CancelResolved
    \/ CancelRejected
    \/ TryAgain
    \/ PresetsResolved
    \/ PresetsRejected
    \/ ClickPreset
    \/ Unmount

SpecTeardown == Init /\ [][NextTeardown]_vars

(***************************************************************************)
(* VisualizationModule of the dashboard: handlers and callbacks.           *)
(***************************************************************************)
\* handleGenerate up to its await: the two validations, then POST .../generate
handleGenerate(regionId, start, end) ==
    /\ IF regionId = "" \/ start = "" \/ end = ""
       THEN UNCHANGED <<vizGenerateInFlight, vizIssued>>
       ELSE /\ vizIssued < MaxVizIssued
            /\ vizIssued' = vizIssued + 1
            /\ vizGenerateInFlight' = vizGenerateInFlight + 1
    /\ lastCall' = "handleGenerate"
    /\ UNCHANGED <<state, vizIntervals, vizPolls, vizFetchCalls, vizJobsCreated,
                   componentVars, indexVars>>

\* pollStatus(): a new setInterval whenever state.status is 'polling'; the
\* handle is a local of the call
pollStatus ==
    IF state'.status # "polling"
    THEN UNCHANGED vizIntervals
    ELSE vizIntervals' = Append(vizIntervals, TRUE)

\* handleGenerate after the await: the server returned job_id
GenerateResolved ==
    /\ vizGenerateInFlight > 0
    /\ vizJobsCreated < MaxVizJobs
    /\ vizGenerateInFlight' = vizGenerateInFlight - 1
    /\ vizJobsCreated' = vizJobsCreated + 1
    /\ state' = [status |-> "polling", jobId |-> vizJobsCreated + 1]
    /\ pollStatus
    /\ lastCall' = "GenerateResolved"
    /\ UNCHANGED <<vizPolls, vizFetchCalls, vizIssued, componentVars, indexVars>>

\* handleGenerate after the await, the request failed or was refused:
\* showError, showProgress(false)
GenerateRejected ==
    /\ vizGenerateInFlight > 0
    /\ vizGenerateInFlight' = vizGenerateInFlight - 1
    /\ lastCall' = "GenerateRejected"
    /\ UNCHANGED <<state, vizIntervals, vizPolls, vizFetchCalls, vizJobsCreated,
                   vizIssued, componentVars, indexVars>>

\* the timer callback of interval i up to its await: GET
\* .../jobs/${state.jobId}/status with the job id of this moment
VizTick(i) ==
    /\ vizIntervals[i]
    /\ vizIssued < MaxVizIssued
    /\ vizIssued' = vizIssued + 1
    /\ vizPolls' = [vizPolls EXCEPT ![<<i, state.jobId>>] = @ + 1]
    /\ lastCall' = "VizTick"
    /\ UNCHANGED <<state, vizIntervals, vizGenerateInFlight, vizFetchCalls,
                   vizJobsCreated, componentVars, indexVars>>

\* fetchResults(jobId) up to its await: GET .../jobs/${jobId}/preview (the
\* response goes to the result modal)
fetchResults(jobId) ==
    vizFetchCalls' = [vizFetchCalls EXCEPT ![jobId] = @ + 1]

\* the timer callback of interval i after the await, on the response to the
\* status request it made for job j
VizStatusResolved(i, j, data) ==
    /\ vizPolls[<<i, j>>] > 0
    /\ vizPolls' = [vizPolls EXCEPT ![<<i, j>>] = @ - 1]
    /\ CASE data.status = "completed" ->
               /\ vizIntervals' = [vizIntervals EXCEPT ![i] = FALSE]
               /\ state' = [state EXCEPT !.status = "completed"]
               /\ fetchResults(state.jobId)
         [] data.status = "failed" ->
               /\ vizIntervals' = [vizIntervals EXCEPT ![i] = FALSE]
               /\ state' = [state EXCEPT !.status = "failed"]
               /\ UNCHANGED vizFetchCalls
         [] OTHER -> UNCHANGED <<vizIntervals, state, vizFetchCalls>>
    /\ lastCall' = "VizStatusResolved"
    /\ UNCHANGED <<vizGenerateInFlight, vizJobsCreated, vizIssued, componentVars,
                   indexVars>>

\* the timer callback of interval i after the await, the request failed:
\* console.error only
VizStatusRejected(i, j) ==
    /\ vizPolls[<<i, j>>] > 0
    /\ vizPolls' = [vizPolls EXCEPT ![<<i, j>>] = @ - 1]
    /\ lastCall' = "VizStatusRejected"
    /\ UNCHANGED <<state, vizIntervals, vizGenerateInFlight, vizFetchCalls,
                   vizJobsCreated, vizIssued, componentVars, indexVars>>

\* a click on Generate
ClickGenerate ==
    \E regionId \in RegionIds, start \in AnalysisDates, end \in AnalysisDates :
       handleGenerate(regionId, start, end)

\* some timer of pollStatus fires
VizTimerTick == \E i \in DOMAIN vizIntervals : VizTick(i)

\* a status request of the dashboard is answered
VizStatusResponse ==
    \E i \in DOMAIN vizIntervals, j \in VizJobIds, data \in VizStatusData :
       VizStatusResolved(i, j, data)

\* a status request of the dashboard fails
VizStatusFailure ==
    \E i \in DOMAIN vizIntervals, j \in VizJobIds : VizStatusRejected(i, j)

NextDashboard ==
    \/ ClickGenerate
    \/ GenerateResolved
    \/ GenerateRejected
    \/ VizTimerTick
    \/ VizStatusResponse
    \/ VizStatusFailure

\* The analysis panel of the dashboard page, the React component left alone.
SpecDashboard == InitForm /\ [][NextDashboard]_vars

(***************************************************************************)
(* MapManager and IndexManager of the dashboard: handlers and callbacks.   *)
(***************************************************************************)
\* the request of a new loadIndexLayer call, awaiting its response
NewChain == [state |-> "requesting", attempts |-> 1, failed |-> 0, outcome |-> "none"]

\* IndexManager.loadIndexLayer(field) up to the fetch: the shared counter is
\* reset; a field that is not a polygon unlocks the map and sends nothing.
\* lock is layerTransitionInProgress as the caller has left it.
loadIndexLayer(field, lock) ==
    /\ indexRetryCount' = 0
    /\ IF field = "Polygon"
       THEN /\ chains' = Append(chains, NewChain)
            /\ layerTransitionInProgress' = lock
       ELSE /\ chains' = chains
            /\ layerTransitionInProgress' = FALSE

\* MapManager.setMapMode(mode)
setMapMode(mode) ==
    IF mode = currentMapMode
    THEN UNCHANGED <<currentMapMode, layerTransitionInProgress, indexRetryCount,
                     chains, satelliteTimers>>
    ELSE /\ currentMapMode' = mode
         /\ IF mode = "satellite"
            THEN /\ layerTransitionInProgress' = TRUE
                 /\ satelliteTimers' = satelliteTimers + 1
                 /\ UNCHANGED <<indexRetryCount, chains>>
            ELSE /\ IF selectedField # NoField
                    THEN loadIndexLayer(selectedField, TRUE)
                    ELSE /\ layerTransitionInProgress' = FALSE
                         /\ UNCHANGED <<indexRetryCount, chains>>
                 /\ UNCHANGED satelliteTimers

\* the click handler of satelliteBtn
ClickSatellite ==
    /\ userActions < MaxUserActions
    /\ userActions' = userActions + 1
    /\ IF layerTransitionInProgress
       THEN UNCHANGED <<currentMapMode, layerTransitionInProgress, indexRetryCount,
                        chains, satelliteTimers>>
       ELSE setMapMode("satellite")
    /\ lastCall' = "ClickSatellite"
    /\ UNCHANGED <<selectedField, lastIndexResponse, componentVars, vizVars>>

\* the click handler of indexBtn
ClickIndex ==
    /\ userActions < MaxUserActions
    /\ userActions' = userActions + 1
    /\ IF layerTransitionInProgress
       THEN UNCHANGED <<currentMapMode, layerTransitionInProgress, indexRetryCount,
                        chains, satelliteTimers>>
       ELSE setMapMode("index")
    /\ lastCall' = "ClickIndex"
    /\ UNCHANGED <<selectedField, lastIndexResponse, componentVars, vizVars>>

\* FieldManager.selectField(field), on a click on a field of the map
selectField(field) ==
    /\ userActions < MaxUserActions
    /\ userActions' = userActions + 1
    /\ selectedField' = field
    /\ IF currentMapMode = "index"
       THEN loadIndexLayer(field, layerTransitionInProgress)
       ELSE UNCHANGED <<layerTransitionInProgress, indexRetryCount, chains>>
    /\ lastCall' = "selectField"
    /\ UNCHANGED <<currentMapMode, lastIndexResponse, satelliteTimers, componentVars,
                   vizVars>>

\* the click handler of applyDates, with a valid date range or not
ApplyDates(valid) ==
    /\ userActions < MaxUserActions
    /\ userActions' = userActions + 1
    /\ IF valid /\ selectedField # NoField /\ currentMapMode = "index"
       THEN /\ lastIndexResponse' = NoResponse
            /\ loadIndexLayer(selectedField, TRUE)
       ELSE UNCHANGED <<lastIndexResponse, layerTransitionInProgress,
                        indexRetryCount, chains>>
    /\ lastCall' = "ApplyDates"
    /\ UNCHANGED <<currentMapMode, selectedField, satelliteTimers, componentVars,
                   vizVars>>

\* the click handler of resetDates: the default date range is restored and,
\* with a field selected in index mode, the index layer is loaded again; the
\* lock and the cached response are left as they are
ResetDates ==
    /\ userActions < MaxUserActions
    /\ userActions' = userActions + 1
    /\ IF selectedField # NoField /\ currentMapMode = "index"
       THEN loadIndexLayer(selectedField, layerTransitionInProgress)
       ELSE UNCHANGED <<layerTransitionInProgress, indexRetryCount, chains>>
    /\ lastCall' = "ResetDates"
    /\ UNCHANGED <<currentMapMode, selectedField, lastIndexResponse, satelliteTimers,
                   componentVars, vizVars>>

\* the click handler of indexDropdown, on an option that differs from
\* DashboardState.currentIndexType or not: the lock is not tested
IndexDropdown(differs) ==
    /\ userActions < MaxUserActions
    /\ userActions' = userActions + 1
    /\ IF differs /\ currentMapMode = "index" /\ selectedField # NoField
       THEN loadIndexLayer(selectedField, layerTransitionInProgress)
       ELSE UNCHANGED <<layerTransitionInProgress, indexRetryCount, chains>>
    /\ lastCall' = "IndexDropdown"
    /\ UNCHANGED <<currentMapMode, selectedField, lastIndexResponse, satelliteTimers,
                   componentVars, vizVars>>

\* the click handler of refreshIndexData
RefreshIndexData ==
    /\ userActions < MaxUserActions
    /\ userActions' = userActions + 1
    /\ IF selectedField # NoField
       THEN /\ lastIndexResponse' = NoResponse
            /\ IF currentMapMode = "index"
               THEN loadIndexLayer(selectedField, layerTransitionInProgress)
               ELSE UNCHANGED <<layerTransitionInProgress, indexRetryCount, chains>>
       ELSE UNCHANGED <<lastIndexResponse, layerTransitionInProgress,
                        indexRetryCount, chains>>
    /\ lastCall' = "RefreshIndexData"
    /\ UNCHANGED <<currentMapMode, selectedField, satelliteTimers, componentVars,
                   vizVars>>

\* the .then branch of the fetch of call c: the response is kept as
\* lastIndexResponse, the layer is created, the map is unlocked
IndexResolved(c) ==
    /\ chains[c].state = "requesting"
    /\ lastIndexResponse' = "data"
    /\ chains' = [chains EXCEPT ![c].state = "done", ![c].outcome = "layer"]
    /\ layerTransitionInProgress' = FALSE
    /\ lastCall' = "IndexResolved"
    /\ UNCHANGED <<currentMapMode, selectedField, indexRetryCount, satelliteTimers,
                   userActions, componentVars, vizVars>>

\* the .catch branch leaving the map locked when the retries are used up
IndexRejectedKeepsLock(c) ==
    /\ chains[c].state = "requesting"
    /\ indexRetryCount' = indexRetryCount + 1
    /\ IF indexRetryCount' < MAX_RETRIES
       THEN chains' = [chains EXCEPT ![c].state = "waiting", ![c].failed = @ + 1]
       ELSE chains' = [chains EXCEPT ![c].state = "done", ![c].failed = @ + 1,
                                    ![c].outcome = IF lastIndexResponse # NoResponse
                                                   THEN "cached" ELSE "fallback"]
    /\ lastCall' = "IndexRejected"
    /\ UNCHANGED <<currentMapMode, layerTransitionInProgress, selectedField,
                   lastIndexResponse, satelliteTimers, userActions, componentVars,
                   vizVars>>

\* the .catch branch of the fetch of call c: count the failure on the shared
\* counter, then retry in 1 s or give up with the cached response or the
\* locally computed index
IndexRejected(c) ==
    /\ chains[c].state = "requesting"
    /\ indexRetryCount' = indexRetryCount + 1
    /\ IF indexRetryCount' < MAX_RETRIES
       THEN /\ chains' = [chains EXCEPT ![c].state = "waiting", ![c].failed = @ + 1]
            /\ UNCHANGED layerTransitionInProgress
       ELSE /\ chains' = [chains EXCEPT ![c].state = "done", ![c].failed = @ + 1,
                                        ![c].outcome = IF lastIndexResponse # NoResponse
                                                       THEN "cached" ELSE "fallback"]
            /\ layerTransitionInProgress' = FALSE
    /\ lastCall' = "IndexRejected"
    /\ UNCHANGED <<currentMapMode, selectedField, lastIndexResponse, satelliteTimers,
                   userActions, componentVars, vizVars>>

\* the 1 s timer of call c: loadIndexLayerWithRetry(field) sends the request
\* again
RetryTimer(c) ==
    /\ chains[c].state = "waiting"
    /\ chains' = [chains EXCEPT ![c].state = "requesting", ![c].attempts = @ + 1]
    /\ lastCall' = "RetryTimer"
    /\ UNCHANGED <<currentMapMode, layerTransitionInProgress, selectedField,
                   indexRetryCount, lastIndexResponse, satelliteTimers, userActions,
                   componentVars, vizVars>>

\* the 200 ms timer of setMapMode('satellite')
SatelliteTimer ==
    /\ satelliteTimers > 0
    /\ satelliteTimers' = satelliteTimers - 1
    /\ layerTransitionInProgress' = FALSE
    /\ lastCall' = "SatelliteTimer"
    /\ UNCHANGED <<currentMapMode, selectedField, indexRetryCount, lastIndexResponse,
                   chains, userActions, componentVars, vizVars>>

\* a click on a field of the map
ClickField == \E g \in FieldGeometries : selectField(g)

\* a click on Apply of the date range
ClickApplyDates == \E valid \in BOOLEAN : ApplyDates(valid)

\* a click on an option of the index selector
ClickIndexOption == \E differs \in BOOLEAN : IndexDropdown(differs)

\* an index request is answered
IndexResponse == \E c \in DOMAIN chains : IndexResolved(c)

\* an index request fails, is refused or times out
IndexFailure == \E c \in DOMAIN chains : IndexRejected(c)

\* a retry timer fires
RetryTimerFires == \E c \in DOMAIN chains : RetryTimer(c)

NextIndex ==
    \/ ClickSatellite
    \/ ClickIndex
    \/ ClickField
    \/ ClickApplyDates
    \/ ResetDates
    \/ ClickIndexOption
    \/ RefreshIndexData
    \/ IndexResponse
    \/ IndexFailure
    \/ RetryTimerFires
    \/ SatelliteTimer

\* The map of the dashboard page.  Every request ends in a response or in a
\* failure (AbortSignal.timeout), and every timer that was set fires.
SpecIndex ==
    /\ InitForm
    /\ [][NextIndex]_vars
    /\ WF_vars(IndexResponse \/ IndexFailure)
    /\ WF_vars(RetryTimerFires)
    /\ WF_vars(SatelliteTimer)

(***************************************************************************)
(* Quantities the properties speak of.                                     *)
(***************************************************************************)
Terminal == {"completed", "failed"}

\* the callbacks that deliver a job event: a push message, a status response
EventCalls == {"OnMessage", "StatusResolved"}

\* sockets of job j that can still deliver a message
OpenSockets(j) == {s \in DOMAIN sockets : sockets[s].jobId = j /\ sockets[s].readyState = "OPEN"}

\* timers of job j that still tick
ActiveIntervals(j) == {i \in DOMAIN intervals : intervals[i].jobId = j /\ intervals[i].active}

\* live event sources of job j
LiveSources(j) == Cardinality(OpenSockets(j)) + Cardinality(ActiveIntervals(j))

\* GET .../status requests outstanding, over all timers
RECURSIVE PollsInFlightUpTo(_)
PollsInFlightUpTo(n) ==
    IF n = 0 THEN 0 ELSE PollsInFlightUpTo(n - 1) + intervals[n].inFlight

PollsInFlight == PollsInFlightUpTo(Len(intervals))

(***************************************************************************)
(* C1.  Once the job is completed or failed, a push message or a status    *)
(* response that arrives later leaves status, progress and message as      *)
(* they are.                                                               *)
(***************************************************************************)
C1_TerminalIsFinal ==
    [][(jobStatus.status \in Terminal /\ lastCall' \in EventCalls)
          => /\ jobStatus'.status = jobStatus.status
             /\ jobStatus'.progress = jobStatus.progress
             /\ jobStatus'.message = jobStatus.message]_vars

(***************************************************************************)
(* C2.  The preview request is issued exactly once for a job that          *)
(* completes: never more than once for one job id.                         *)
(***************************************************************************)
C2_PreviewOncePerJob == \A j \in JobIds : previewCalls[j] <= 1

(***************************************************************************)
(* C3.  At most one GET .../status request is outstanding at any time.     *)
(***************************************************************************)
C3_OnePollInFlight == PollsInFlight <= 1

(***************************************************************************)
(* C4.  For one job, the open push channel and the running polling         *)
(* intervals together never number more than one.                          *)
(***************************************************************************)
C4_OneSourcePerJob == \A j \in JobIds : LiveSources(j) <= 1

(***************************************************************************)
(* C5.  After a second subscribe for another job id only the second        *)
(* subscription is live: every open socket and every running interval      *)
(* belongs to the job of the socket created last.                          *)
(***************************************************************************)
C5_OnlyLastSubscriptionLive ==
    \A j \in JobIds :
        (sockets # <<>> /\ j # sockets[Len(sockets)].jobId) => LiveSources(j) = 0

(***************************************************************************)
(* C6.  When the server acknowledges a cancel, the job is idle (progress   *)
(* 0, empty message, no job id) and the subscription is torn down: no      *)
(* socket is open and no polling interval runs.  Stated for a run with a   *)
(* single job, so that every event source is the cancelled job's.          *)
(***************************************************************************)
C6_CancelTearsDown ==
    (lastCall = "CancelResolved" /\ jobsCreated = 1)
        => /\ jobStatus = IdleJob
           /\ LiveSources(1) = 0

(***************************************************************************)
(* C7.  A failed cancel request changes nothing: status, progress,         *)
(* message and job id, the sockets and the intervals are as before, and    *)
(* no request is issued in its place.                                      *)
(***************************************************************************)
C7_CancelFailureKeepsState ==
    [][lastCall' = "CancelRejected"
          => /\ jobStatus' = jobStatus
             /\ sockets' = sockets
             /\ wsRef' = wsRef
             /\ intervals' = intervals
             /\ issued' = issued
             /\ cancelInFlight' = cancelInFlight - 1]_vars

\* a cancel request has failed while the job was running on an open socket
C7_Witness ==
    /\ lastCall = "CancelRejected"
    /\ jobStatus.status = "running"
    /\ jobStatus.jobId # NullJob
    /\ OpenSockets(jobStatus.jobId) # {}

(***************************************************************************)
(* C8.  Cancellation is accepted only in pending or running: while the     *)
(* job is idle, completed or failed, no step of handleCancelJob, before    *)
(* or after its await, issues a POST .../cancel or changes a field of the  *)
(* job.                                                                    *)
(***************************************************************************)
C8_CancelStep ==
    lastCall' \in {"handleCancelJob", "CancelResolved", "CancelRejected"}

C8_CancelNoOpUnlessActive ==
    [][(jobStatus.status \in {"idle", "completed", "failed"} /\ C8_CancelStep)
          => /\ cancelInFlight' <= cancelInFlight
             /\ jobStatus' = jobStatus]_vars

(***************************************************************************)
(* C9.  One job at a time: at most one start-job request is outstanding,   *)
(* and none while the job is pending or running.                           *)
(***************************************************************************)
C9_OneJobAtATime ==
    /\ submitInFlight <= 1
    /\ isRunning => submitInFlight = 0

(***************************************************************************)
(* C10.  A submit with endDate more than 366 days after startDate sets     *)
(* the endDate error, issues no request and leaves the job as it is; a     *)
(* range of exactly 366 days leaves no endDate error.                      *)
(***************************************************************************)
C10_RangeOver366Rejected ==
    [][(/\ lastCall' = "handleAnalysisSubmit"
        /\ analysisParams.startDate # NoDate
        /\ analysisParams.endDate # NoDate)
          => /\ DaysDiff(analysisParams.startDate, analysisParams.endDate) > 366
                  => /\ errors'["endDate"] = "Date range cannot exceed 366 days"
                     /\ UNCHANGED <<jobStatus, issued, submitInFlight>>
             /\ DaysDiff(analysisParams.startDate, analysisParams.endDate) = 366
                  => errors'["endDate"] = Undefined]_vars

\* after a job has completed, a submit of 2024-01-01 .. 2025-01-02 (367 days,
\* across a leap year) was turned down with the range error
C10_Witness ==
    /\ lastCall = "handleAnalysisSubmit"
    /\ analysisParams.startDate = <<2024, 1, 1>>
    /\ analysisParams.endDate = <<2025, 1, 2>>
    /\ errors["endDate"] = "Date range cannot exceed 366 days"
    /\ jobStatus.status = "failed"
    /\ submitInFlight = 0

(***************************************************************************)
(* C11.  Submit issues the start-job request if and only if every field    *)
(* validates; otherwise it issues nothing, leaves the job as it is and     *)
(* reports an error under the key of each failing field and no other.      *)
(***************************************************************************)
\* the AnalysisRequest invariant that field k of form p breaks
C11_FieldFails(p, k) ==
    CASE k = "regionName" -> \A i \in 1..Len(p.regionName) : p.regionName[i] \in WhiteSpace
      [] k = "startDate" -> p.startDate = NoDate
      [] k = "endDate" ->
            \/ p.endDate = NoDate
            \/ /\ p.startDate # NoDate
               /\ \/ DaysDiff(p.startDate, p.endDate) <= 0
                  \/ DaysDiff(p.startDate, p.endDate) > 366
      [] k = "geometry" -> p.geometry = NullGeometry
      [] OTHER -> FALSE

C11_SubmitIffValid ==
    [][lastCall' = "handleAnalysisSubmit"
          => LET failing == {k \in ErrorKeys : C11_FieldFails(analysisParams, k)}
             IN  /\ (failing = {}) <=> (submitInFlight' = submitInFlight + 1)
                 /\ (failing # {})
                       => /\ Keys(errors') = failing
                          /\ UNCHANGED <<jobStatus, issued, submitInFlight, sockets>>]_vars

\* a form that is valid but for a blank region name was submitted: the only
\* error is the one on regionName, and nothing was sent
C11_Witness ==
    /\ lastCall = "handleAnalysisSubmit"
    /\ analysisParams.regionName = <<" ", "\t">>
    /\ Keys(errors) = {"regionName"}
    /\ errors["regionName"] = "Region name is required"
    /\ submitInFlight = 0
    /\ issued = 0

(***************************************************************************)
(* C12.  On a successful start-job response the job becomes pending with   *)
(* progress 0 and the returned job id, and no socket or polling interval   *)
(* of that job exists before this step, so no event of the job can have    *)
(* been applied earlier.                                                   *)
(***************************************************************************)
C12_PendingBeforeAnyEvent ==
    [][lastCall' = "SubmitResolved"
          => /\ jobStatus'.status = "pending"
             /\ jobStatus'.progress = 0
             /\ jobStatus'.jobId = jobsCreated'
             /\ jobsCreated' = jobsCreated + 1
             /\ \A s \in DOMAIN sockets : sockets[s].jobId # jobsCreated'
             /\ \A i \in DOMAIN intervals : intervals[i].jobId # jobsCreated']_vars

\* the second job has just been accepted, after the first one completed
C12_Witness ==
    /\ lastCall = "SubmitResolved"
    /\ jobStatus.status = "pending"
    /\ jobStatus.progress = 0
    /\ jobStatus.jobId = 2
    /\ previewCalls[1] = 1

(***************************************************************************)
(* C13.  A progress_update with progress 45 followed immediately by        *)
(* job_completed ends in completed with progress 100, and exactly one      *)
(* socket of the job goes from OPEN to CLOSED in that sequence.            *)
(***************************************************************************)
\* the sockets of job j that the step closes
C13_ClosedInStep(j) ==
    {s \in DOMAIN sockets : /\ sockets[s].jobId = j
                            /\ sockets[s].readyState = "OPEN"
                            /\ sockets'[s].readyState = "CLOSED"}

C13_CompletionClosesOnce ==
    [][(/\ lastCall = "OnMessage"
        /\ jobStatus.status = "running"
        /\ jobStatus.progress = 45
        /\ lastCall' = "OnMessage"
        /\ jobStatus'.status = "completed")
          => /\ jobStatus'.progress = 100
             /\ Cardinality(C13_ClosedInStep(jobStatus.jobId)) = 1]_vars

(***************************************************************************)
(* C14.  Polling started by transport errors stops at the terminal         *)
(* status: once a poll of a job has observed completed or failed and its   *)
(* interval was cleared, no timer that issues status requests for that     *)
(* job is still armed.                                                     *)
(***************************************************************************)
\* the jobs for which a terminal status was observed by a poll
C14_TerminalObserved(j) ==
    \E k \in DOMAIN intervals : intervals[k].jobId = j /\ ~intervals[k].active

C14_PollingStopsAtTerminal ==
    \A j \in JobIds : C14_TerminalObserved(j) => ActiveIntervals(j) = {}

(***************************************************************************)
(* C15.  The preview request is issued only in a step that applies a       *)
(* completed report (push message or poll response); a step that applies   *)
(* a failed report issues none, and a job_failed message that carries a    *)
(* text leaves the job failed with exactly that text.                      *)
(***************************************************************************)
C15_PreviewOnlyOnCompleted ==
    [][/\ \A j \in JobIds :
             previewCalls'[j] > previewCalls[j]
                => /\ lastCall' \in EventCalls
                   /\ jobStatus'.status = "completed"
       /\ (lastCall' \in EventCalls /\ jobStatus'.status = "failed")
             => previewCalls' = previewCalls
       /\ \A s \in DOMAIN sockets, data \in WsMessages :
             (/\ data.type = "job_failed"
              /\ data.message # Undefined
              /\ OnMessage(s, data))
                => /\ jobStatus'.status = "failed"
                   /\ jobStatus'.message = data.message
                   /\ previewCalls' = previewCalls]_vars

\* progress 20, then job_failed "GEE quota exceeded": failed with that
\* message and no preview request for the job
C15_Witness ==
    /\ lastCall = "OnMessage"
    /\ jobStatus.status = "failed"
    /\ jobStatus.progress = 20
    /\ jobStatus.message = "GEE quota exceeded"
    /\ jobStatus.jobId = 1
    /\ previewCalls[1] = 0

(***************************************************************************)
(* C16.  After the component has unmounted every event source is           *)
(* released: no polling interval is still armed and no socket is still     *)
(* open.                                                                   *)
(***************************************************************************)
C16_UnmountReleasesAll ==
    ~mounted => /\ \A i \in DOMAIN intervals : ~intervals[i].active
                /\ \A s \in DOMAIN sockets : sockets[s].readyState # "OPEN"

(***************************************************************************)
(* C17.  When the start-job request fails, the errors become exactly one   *)
(* entry under the key submit, the job state is left as it was, no socket  *)
(* and no polling interval is created; while no start-job request has      *)
(* been accepted the job is idle with no job id and nothing is subscribed. *)
(***************************************************************************)
C17_RejectionReportsSubmitOnly ==
    [][lastCall' = "SubmitRejected"
          => /\ Keys(errors') = {"submit"}
             /\ errors'["submit"] \in {"Failed to start analysis", "Region too large"}
             /\ UNCHANGED <<jobStatus, wsRef, sockets, intervals, jobsCreated>>
             /\ jobsCreated = 0
                   => /\ jobStatus' = IdleJob
                      /\ sockets' = <<>>
                      /\ intervals' = <<>>]_vars

\* the first start-job request was rejected with a detail
C17_Witness ==
    /\ lastCall = "SubmitRejected"
    /\ Keys(errors) = {"submit"}
    /\ errors["submit"] = "Region too large"
    /\ jobStatus = IdleJob
    /\ jobsCreated = 0
    /\ sockets = <<>>
    /\ intervals = <<>>

(***************************************************************************)
(* C18.  A push message that cannot be decoded changes neither the job     *)
(* state nor the results, errors, sockets or intervals; the socket that    *)
(* received it stays open, and a valid message that follows on an open     *)
(* socket is applied as usual.                                             *)
(***************************************************************************)
C18_MalformedMessageIgnored ==
    [][/\ lastCall' = "OnMessageMalformed"
          => /\ UNCHANGED <<jobStatus, results, errors, wsRef, sockets, intervals,
                            previewCalls, issued>>
             /\ \E s \in DOMAIN sockets : sockets'[s].readyState = "OPEN"
       /\ \A s \in DOMAIN sockets, data \in WsMessages :
             (lastCall = "OnMessageMalformed" /\ OnMessage(s, data))
                => /\ jobStatus' = OnMessageJob(jobStatus, data)
                   /\ lastCall' = "OnMessage"]_vars

\* a malformed message arrived after progress 20 on the current socket
C18_Witness ==
    /\ lastCall = "OnMessageMalformed"
    /\ jobStatus.status = "running"
    /\ jobStatus.progress = 20
    /\ wsRef # 0
    /\ sockets[wsRef].readyState = "OPEN"

(***************************************************************************)
(* C19.  After a failed cancel request, a failed preview request or a      *)
(* failed start-job request the errors state holds an entry the user       *)
(* sees.                                                                   *)
(***************************************************************************)
C19_FailuresReachErrors ==
    lastCall \in {"CancelRejected", "PreviewRejected", "SubmitRejected"}
       => Keys(errors) # {}

(***************************************************************************)
(* C20.  In every state, status completed comes with progress 100.         *)
(***************************************************************************)
C20_CompletedMeansFull ==
    jobStatus.status = "completed" => jobStatus.progress = 100

(***************************************************************************)
(* C21.  The job status changes only along idle -> pending, pending ->     *)
(* running, running -> running, pending or running -> completed or         *)
(* failed, pending or running -> idle, failed -> idle.                     *)
(***************************************************************************)
C21_Transitions ==
    {<<"idle", "pending">>, <<"pending", "running">>, <<"running", "running">>,
     <<"pending", "completed">>, <<"running", "completed">>,
     <<"pending", "failed">>, <<"running", "failed">>,
     <<"pending", "idle">>, <<"running", "idle">>, <<"failed", "idle">>}

C21_OnlyListedTransitions ==
    [][\/ jobStatus'.status = jobStatus.status
       \/ <<jobStatus.status, jobStatus'.status>> \in C21_Transitions]_vars

(***************************************************************************)
(* C22.  A progress_update applied in pending or running gives status      *)
(* running with the progress and the message of the event, whatever the    *)
(* progress was, and leaves the job id.                                    *)
(***************************************************************************)
C22_ProgressLastWriteWins ==
    [][\A s \in DOMAIN sockets, data \in WsMessages :
          (/\ data.type = "progress_update"
           /\ isRunning
           /\ OnMessage(s, data))
             => jobStatus' = [status |-> "running", progress |-> data.progress,
                              message |-> data.message, jobId |-> jobStatus.jobId]]_vars

\* the first progress event, of value 20, has taken job 1 out of pending
C22_Witness ==
    /\ lastCall = "OnMessage"
    /\ jobStatus = [status |-> "running", progress |-> 20,
                    message |-> "Loading data", jobId |-> 1]
    /\ issued = 1

(***************************************************************************)
(* C23.  A job_failed applied in pending or running gives status failed    *)
(* with the message of the event, or 'Analysis failed' when the event      *)
(* has none, and leaves progress and job id.                               *)
(***************************************************************************)
C23_FailedMessageOrDefault ==
    [][\A s \in DOMAIN sockets, data \in WsMessages :
          (/\ data.type = "job_failed"
           /\ isRunning
           /\ OnMessage(s, data))
             => /\ jobStatus'.status = "failed"
                /\ jobStatus'.message = IF data.message = Undefined
                                        THEN "Analysis failed" ELSE data.message
                /\ jobStatus'.progress = jobStatus.progress
                /\ jobStatus'.jobId = jobStatus.jobId]_vars

\* a job_failed without a message arrived at progress 45
C23_Witness ==
    /\ lastCall = "OnMessage"
    /\ jobStatus = [status |-> "failed", progress |-> 45,
                    message |-> "Analysis failed", jobId |-> 1]

(***************************************************************************)
(* C24.  A failed status request changes neither the job state nor the     *)
(* errors, leaves every interval armed or cleared as it was, and the       *)
(* armed interval issues the request again on its next tick.               *)
(***************************************************************************)
C24_FailedPollStep ==
    lastCall' = "StatusRejected"
       => /\ UNCHANGED <<jobStatus, errors, results, sockets, wsRef>>
          /\ Len(intervals') = Len(intervals)
          /\ \A i \in DOMAIN intervals :
                /\ intervals'[i].active = intervals[i].active
                /\ intervals'[i].jobId = intervals[i].jobId

C24_RetryEnabled ==
    lastCall = "StatusRejected"
       => \A i \in DOMAIN intervals :
             (intervals[i].active /\ issued < MaxIssued) => ENABLED IntervalTick(i)

C24_FailedPollChangesNothing == [][C24_FailedPollStep]_vars /\ []C24_RetryEnabled

\* the only poll of job 1 has failed while the job is pending; the interval
\* is armed with no request outstanding
C24_Witness ==
    /\ lastCall = "StatusRejected"
    /\ jobStatus.status = "pending"
    /\ jobStatus.jobId = 1
    /\ Len(intervals) = 1
    /\ intervals[1].active
    /\ intervals[1].inFlight = 0
    /\ issued < MaxIssued

(***************************************************************************)
(* C25.  A loadIndexLayer call gives up, with the cached response or the   *)
(* locally computed index, exactly when MAX_RETRIES of its attempts have   *)
(* failed: with fewer failed attempts no cached data is shown, and with    *)
(* MAX_RETRIES failed attempts the call has ended and requests no more.    *)
(***************************************************************************)
C25_CacheOnlyAtLimit ==
    \A c \in DOMAIN chains :
       /\ chains[c].outcome \in {"cached", "fallback"}
             => chains[c].failed = MAX_RETRIES
       /\ chains[c].failed >= MAX_RETRIES
             => /\ chains[c].state = "done"
                /\ chains[c].outcome \in {"cached", "fallback"}

(***************************************************************************)
(* C26.  The results held (and rendered by ResultsViewer whenever they     *)
(* are not null) are those of the job being tracked.                       *)
(***************************************************************************)
C26_ResultsOfTrackedJob ==
    results # NullResults => results = jobStatus.jobId

(***************************************************************************)
(* C27.  In the dashboard VisualizationModule at most one polling          *)
(* interval is armed at any time.                                          *)
(***************************************************************************)
C27_OneVizInterval ==
    Cardinality({i \in DOMAIN vizIntervals : vizIntervals[i]}) <= 1

(***************************************************************************)
(* C28.  In the dashboard VisualizationModule fetchResults is called at    *)
(* most once for a job.                                                    *)
(***************************************************************************)
C28_FetchResultsOncePerJob ==
    \A j \in VizJobIds : vizFetchCalls[j] <= 1

(***************************************************************************)
(* C29.  One loadIndexLayer call issues at most MAX_RETRIES index          *)
(* requests.                                                               *)
(***************************************************************************)
C29_AtMostMaxRetriesRequests ==
    \A c \in DOMAIN chains : chains[c].attempts <= MAX_RETRIES

(***************************************************************************)
(* C30.  Whenever layerTransitionInProgress is true it eventually is       *)
(* false again.                                                            *)
(***************************************************************************)
C30_LockReleased == layerTransitionInProgress ~> ~layerTransitionInProgress

\* in index mode, a call has used up its retries, fell back to the locally
\* computed index and unlocked the map
C30_Witness ==
    /\ lastCall = "IndexRejected"
    /\ currentMapMode = "index"
    /\ ~layerTransitionInProgress
    /\ \E c \in DOMAIN chains :
          chains[c].outcome = "fallback" /\ chains[c].failed = MAX_RETRIES

=============================================================================
